---- MODULE Spec2Model ----
(***************************************************************************)
(* spotify-ad-mute: the MuteAd worker thread (run), the shell thread       *)
(* (main / show_menu / stop), the screen matcher and the two mute          *)
(* actuators, with the player and the screen as the environment.           *)
(*                                                                         *)
(* Threads interleave between source lines: the pc values of the worker    *)
(* ("L206" ...) and of the shell ("S238" ...) are the source lines about   *)
(* to be executed.                                                         *)
(***************************************************************************)
EXTENDS Integers, Sequences, FiniteSets, TLC

VARIABLES
    \* --- MuteAd fields (src 201-203)
    program_running, running, _muted,
    \* --- worker thread: position and locals of run()
    pcRun, ad_pos, screen_muted,
    \* the index in image_ads of the template check_for_ad looks for next
    ad_i,
    \* --- shell thread: position in main()/show_menu()/stop(), and who called stop()
    pcShell, stopCaller,
    \* --- configuration chosen before start (src 42)
    USE_PYCAW,
    \* --- environment: the screen, the player, the audio session
    adsOnScreen, uiVisible, appMuted, sessionMuted, spotifyProc, matcherRaises,
    \* --- the matcher's outcome for each icon template: "screen" when it
    \* matches exactly what the player draws, else "match", "miss" or "raise"
    templateMatch,
    \* --- the function applied on its own and what it returned
    result,
    \* --- history (observers, never read by the program)
    appMutedByCtl,
    \* the last actuator call that returned true was a mute call
    ownMute,
    \* which part of the history a specification records: "none", "stop"
    \* or "cycle"; the parts not recorded keep their initial values
    recording,
    \* of the cycle of run() in progress, or of the last one
    edge, believedAfterReconcile, reconciled, cycleCall, cycleRet, prevFail,
    \* of the whole run
    iconEverMatched,
    \* the interval (in milliseconds) of the sleep that brought the worker to
    \* line 206, 0 once it has gone on
    waited,
    \* of stop()
    mutedAtStop, mutedAtDead, unmutesSinceStop, unmutedSinceDead,
    \* <<running, program_running, _muted>> as show_menu's call of stop() left them
    leftByStop

progVars == <<program_running, running, _muted>>
runVars == <<pcRun, ad_pos, screen_muted, ad_i>>
shellVars == <<pcShell, stopCaller>>
envVars == <<adsOnScreen, uiVisible, spotifyProc, matcherRaises>>
audioVars == <<appMuted, sessionMuted, appMutedByCtl, ownMute>>
cycleHist == <<edge, believedAfterReconcile, reconciled, cycleCall, cycleRet, prevFail>>
stopHist == <<mutedAtStop, mutedAtDead, unmutesSinceStop, unmutedSinceDead, leftByStop>>
hist == <<recording, cycleHist, iconEverMatched, stopHist, waited>>
detectVars == <<templateMatch, result>>
vars == <<progVars, runVars, shellVars, USE_PYCAW, envVars, audioVars, hist, detectVars>>

\* the counters of the history stop counting at MaxCount
MaxCount == 2
Inc(c) == IF c < MaxCount THEN c + 1 ELSE c

\* the value a history variable of part `part` takes: `new` when the part is
\* recorded, else the value it has
Rec(part, new, old) == IF recording = part THEN new ELSE old

(***************************************************************************)
(* Values                                                                  *)
(***************************************************************************)
\* Python's None, and an exception leaving a call in place of its value
\* (told from every value by its length)
None == <<>>
Raise == <<"raise", "Exception", "">>

image_volume == "volume.png"
image_mute == "mute.png"
\* the ad templates collected from the ads folder, in folder order
image_ads == <<"adA.png", "adB.png">>

AdSet == {image_ads[i] : i \in 1..Len(image_ads)}
IconSet == {image_mute, image_volume}

\* the screen position at which a template shows
PosOf(image) ==
    CASE image = image_volume -> <<9, 9>>
      [] image = image_mute -> <<9, 9>>
      [] image = image_ads[1] -> <<1, 1>>
      [] OTHER -> <<2, 2>>

(***************************************************************************)
(* Screen detection.  An exception that a callee lets through leaves the   *)
(* caller too: the operators pass Raise on.                                *)
(***************************************************************************)
\* what the screen shows: the player draws the mute icon when its own mute
\* toggle is on and the volume icon when it is off, if its window is visible
OnScreen(image) ==
    CASE image = image_mute -> uiVisible /\ appMuted
      [] image = image_volume -> uiVisible /\ ~appMuted
      [] OTHER -> image \in adsOnScreen

\* pyautogui.locateCenterOnScreen: a position, None, or an exception
locateCenterOnScreen(image) ==
    LET outcome == IF image \in IconSet THEN templateMatch[image] ELSE "screen"
    IN IF matcherRaises \/ outcome = "raise" THEN Raise
       ELSE IF outcome = "match" \/ (outcome = "screen" /\ OnScreen(image))
       THEN PosOf(image)
       ELSE None

\* src 117-123: every exception of the matcher becomes None
locate_image(image) ==
    LET r == locateCenterOnScreen(image)
    IN IF r = Raise THEN None ELSE r

\* is_muted_on_screen trying the volume template first
is_muted_on_screen_volume_first ==
    LET m == locate_image(image_mute)
        v == locate_image(image_volume)
    IN IF v = Raise THEN Raise
       ELSE IF v /= None THEN <<FALSE>>
       ELSE IF m = Raise THEN Raise
       ELSE IF m /= None THEN <<TRUE>>
       ELSE None

\* src 126-136: True / False / None as <<TRUE>> / <<FALSE>> / None
is_muted_on_screen ==
    LET m == locate_image(image_mute)
        v == locate_image(image_volume)
    IN IF m = Raise THEN Raise
       ELSE IF m /= None THEN <<TRUE>>
       ELSE IF v = Raise THEN Raise
       ELSE IF v /= None THEN <<FALSE>>
       ELSE None

(***************************************************************************)
(* Audio control: each actuator yields its return value (or that it        *)
(* raised) and the player's state after the call                           *)
(***************************************************************************)
\* src 77-79: GetAllSessions() and the search for the session of spotify.exe
\* in the list it returned
mute_via_pycaw_session == spotifyProc

\* an exception raised by a library call of an actuator (pycaw at 77-81,
\* pyautogui at 100): nothing catches it, and the player is left as it is
ActuatorRaised ==
    [ret |-> FALSE, raised |-> TRUE, clicks |-> 0,
     sessionMuted |-> sessionMuted, appMuted |-> appMuted]

\* src 80-83: SetMute on the session found, which the call holds whether or
\* not the player still has it by then, and the return of True; or the
\* exception SetMute raises
mute_via_pycaw_SetMute(muted, raises) ==
    IF raises THEN ActuatorRaised
    ELSE [ret |-> TRUE, raised |-> FALSE, clicks |-> 0,
          sessionMuted |-> muted, appMuted |-> appMuted]

\* src 96-98: the icon of the state opposite to the target is looked for
mute_via_click_locate(muted) ==
    LET target_image == IF muted THEN image_volume ELSE image_mute
    IN locate_image(target_image)

\* src 100-102: the click at the position found, which toggles the player
\* whatever it shows by then, and the return; or the exception pyautogui
\* raises in place of the click
mute_via_click_click(muted, raises) ==
    IF raises THEN ActuatorRaised
    ELSE [ret |-> TRUE, raised |-> FALSE, clicks |-> 1,
          sessionMuted |-> sessionMuted, appMuted |-> ~appMuted]

\* src 88-104, on a screen that does not change during the call; `raises`:
\* pyautogui raises in place of the click
mute_via_click(muted, raises) ==
    LET pos == mute_via_click_locate(muted)
    IN IF pos = Raise
       THEN [ret |-> FALSE, raised |-> TRUE, clicks |-> 0,
          sessionMuted |-> sessionMuted, appMuted |-> appMuted]
       ELSE IF pos /= None
       THEN mute_via_click_click(muted, raises)
       ELSE [ret |-> FALSE, raised |-> FALSE, clicks |-> 0,
          sessionMuted |-> sessionMuted, appMuted |-> appMuted]

\* src 107-112: the call up to its return or, when the actuator has found
\* what it acts on (the session at 79, the icon at 98), up to the SetMute or
\* the click that is still to be made (pending).  `raises`: pycaw raises at
\* 77-79 (locate_image, at 98, catches what the matcher raises)
set_spotify_mute(muted, raises) ==
    IF USE_PYCAW
    THEN IF raises THEN [pending |-> FALSE] @@ ActuatorRaised
         ELSE [pending |-> mute_via_pycaw_session, ret |-> FALSE, raised |-> FALSE,
               clicks |-> 0, sessionMuted |-> sessionMuted, appMuted |-> appMuted]
    ELSE LET pos == mute_via_click_locate(muted)
         IN IF pos = Raise
            THEN [pending |-> FALSE] @@ ActuatorRaised
            ELSE [pending |-> pos /= None, ret |-> FALSE, raised |-> FALSE, clicks |-> 0,
                  sessionMuted |-> sessionMuted, appMuted |-> appMuted]

\* src 107-112: the rest of a pending call, SetMute (81) or the click (100),
\* and its return of True, or the exception the library call raises
set_spotify_mute_act(muted, raises) ==
    IF USE_PYCAW THEN mute_via_pycaw_SetMute(muted, raises)
    ELSE mute_via_click_click(muted, raises)

\* the player's audio is silent
AudioMuted == sessionMuted \/ appMuted
\* ... as the effect of an actuator call of the controller
MutedByController == sessionMuted \/ (appMuted /\ appMutedByCtl)

\* the effect of one actuator call with result r on the player
Actuate(muted, r) ==
    /\ sessionMuted' = r.sessionMuted
    /\ appMuted' = r.appMuted
    /\ appMutedByCtl' = IF r.appMuted = appMuted THEN appMutedByCtl
                        ELSE r.appMuted
    /\ ownMute' = Rec("cycle", IF r.ret THEN muted ELSE ownMute, ownMute)

(***************************************************************************)
(* Init: the state after MuteAd() and start() (src 199-203, 271-272)       *)
(***************************************************************************)
InitProgram ==
    /\ program_running = TRUE
    /\ running = FALSE
    /\ _muted = FALSE
    /\ pcRun = "L206"
    /\ ad_pos = None
    /\ screen_muted = None
    /\ ad_i = 1
    /\ pcShell = "menu"
    /\ stopCaller = "none"
    /\ USE_PYCAW \in BOOLEAN
    /\ adsOnScreen \in SUBSET AdSet
    /\ uiVisible \in BOOLEAN
    /\ appMuted \in BOOLEAN
    /\ sessionMuted = FALSE
    /\ spotifyProc \in BOOLEAN
    /\ matcherRaises \in BOOLEAN
    /\ appMutedByCtl = FALSE
    /\ ownMute = FALSE
    /\ edge = "none"
    /\ believedAfterReconcile = None
    /\ reconciled = FALSE
    /\ cycleCall = "none"
    /\ cycleRet = None
    /\ prevFail = "none"
    /\ iconEverMatched = FALSE
    /\ mutedAtStop = None
    /\ mutedAtDead = None
    /\ unmutesSinceStop = 0
    /\ unmutedSinceDead = FALSE
    /\ leftByStop = None
    /\ waited = 0

\* no function applied on its own
NoResult == [fn |-> "none", muted |-> FALSE, value |-> None, clicks |-> 0]
\* the matcher matches each icon template exactly where the player draws it
ExactMatcher ==
    /\ templateMatch = [image \in IconSet |-> "screen"]
    /\ result = NoResult

\* the program alone, no history recorded
Init == InitProgram /\ ExactMatcher /\ recording = "none"
\* with the history of stop() recorded
InitStop == InitProgram /\ ExactMatcher /\ recording = "stop"
\* with the history of each cycle of run() recorded
InitCycle == InitProgram /\ ExactMatcher /\ recording = "cycle"

(***************************************************************************)
(* The worker thread: MuteAd.run (src 205-234).  It ends when run()        *)
(* returns ("done") or when an exception leaves run() ("died").            *)
(***************************************************************************)
\* 196, 197, 208: the three sleep intervals, in milliseconds
SLEEP_AD_ACTIVE == 500
SLEEP_AD_IDLE == 5000
SLEEP_PAUSED == 200

\* the process has not ended: main() has not returned, and if an exception
\* has left main() ("crashed") the interpreter has not yet shut down
ProcessLives == pcShell \notin {"exited", "killed"}

\* every step of the worker: it is a daemon thread, which runs until the
\* process ends, and it writes neither the flags nor anything of the shell
RunFrame ==
    /\ ProcessLives
    /\ UNCHANGED <<shellVars, USE_PYCAW, envVars, running, program_running, detectVars>>

\* 216 with == for !=
ReconcileNeededWhenEqual(observed, believed) ==
    observed /= None /\ observed[1] = believed

\* 216: screen_muted is not None and screen_muted != self._muted
ReconcileNeeded(observed, believed) ==
    observed /= None /\ observed[1] /= believed

\* 206: while self.program_running
RunWhile ==
    /\ pcRun = "L206"
    /\ pcRun' = IF program_running THEN "L207" ELSE "done"
    /\ waited' = 0
    /\ UNCHANGED <<_muted, ad_pos, ad_i, screen_muted, audioVars>>
    /\ UNCHANGED <<recording, cycleHist, iconEverMatched, stopHist>>
    /\ RunFrame

\* 207 with the test dropped: a detection cycle whether enabled or not
RunPausedIgnored ==
    /\ pcRun = "L207"
    /\ pcRun' = "L212"
    /\ UNCHANGED <<_muted, ad_pos, ad_i, screen_muted, audioVars, hist>>
    /\ RunFrame

\* 207: if not self.running
RunPaused ==
    /\ pcRun = "L207"
    /\ pcRun' = IF running THEN "L212" ELSE "L208"
    /\ UNCHANGED <<_muted, ad_pos, ad_i, screen_muted, audioVars, hist>>
    /\ RunFrame

\* 208-209: time.sleep(0.2); continue
RunPausedSleep ==
    /\ pcRun = "L208"
    /\ pcRun' = "L206"
    /\ waited' = Rec("cycle", SLEEP_PAUSED, waited)
    /\ UNCHANGED <<_muted, ad_pos, ad_i, screen_muted, audioVars>>
    /\ UNCHANGED <<recording, cycleHist, iconEverMatched, stopHist>>
    /\ RunFrame

\* 212: ad_pos = check_for_ad(image_ads), one turn of its loop (141-147): the
\* matcher is called for one template; the screen can change before the next
\* history: an edge of ad presence against the sample of the cycle before
RunCheckAd ==
    /\ pcRun = "L212"
    /\ LET pos == locate_image(image_ads[ad_i])
           e == IF ad_pos = None /\ pos /= None /\ ~_muted THEN "up"
                ELSE IF ad_pos /= None /\ pos = None /\ _muted THEN "down"
                ELSE "none"
       IN IF pos = Raise
          THEN pcRun' = "died" /\ UNCHANGED <<ad_pos, ad_i, edge>>
          ELSE IF pos /= None \/ ad_i = Len(image_ads)
          THEN /\ ad_pos' = pos
               /\ ad_i' = 1
               /\ pcRun' = "L215"
               /\ edge' = Rec("cycle", e, edge)
          ELSE /\ ad_i' = ad_i + 1
               /\ UNCHANGED <<pcRun, ad_pos, edge>>
    /\ UNCHANGED <<_muted, screen_muted, audioVars>>
    /\ UNCHANGED <<believedAfterReconcile, reconciled, cycleCall, cycleRet, prevFail>>
    /\ UNCHANGED <<recording, waited, iconEverMatched, stopHist>>
    /\ RunFrame

\* 215: screen_muted = is_muted_on_screen(), its first matcher call (132-133)
RunObserveMute ==
    /\ pcRun = "L215"
    /\ LET m == locate_image(image_mute)
       IN /\ IF m = Raise
             THEN pcRun' = "died" /\ UNCHANGED screen_muted
             ELSE IF m /= None
             THEN screen_muted' = <<TRUE>> /\ pcRun' = "L216"
             ELSE pcRun' = "L215v" /\ UNCHANGED screen_muted
          /\ iconEverMatched' = Rec("cycle", iconEverMatched \/ m /= None,
                                    iconEverMatched)
    /\ UNCHANGED <<_muted, ad_pos, ad_i, audioVars, recording, waited, cycleHist, stopHist>>
    /\ RunFrame

\* 134-136 answering False where nothing is found
RunObserveVolumeNeverNone ==
    /\ pcRun = "L215v"
    /\ screen_muted' = <<FALSE>>
    /\ pcRun' = "L216"
    /\ UNCHANGED <<_muted, ad_pos, ad_i, audioVars, hist>>
    /\ RunFrame

\* 215: is_muted_on_screen(), its second matcher call and return (134-136)
RunObserveVolume ==
    /\ pcRun = "L215v"
    /\ LET v == locate_image(image_volume)
       IN /\ IF v = Raise
             THEN pcRun' = "died" /\ UNCHANGED screen_muted
             ELSE /\ screen_muted' = IF v /= None THEN <<FALSE>> ELSE None
                  /\ pcRun' = "L216"
          /\ iconEverMatched' = Rec("cycle", iconEverMatched \/ v /= None,
                                    iconEverMatched)
    /\ UNCHANGED <<_muted, ad_pos, ad_i, audioVars, recording, waited, cycleHist, stopHist>>
    /\ RunFrame

\* 216: if screen_muted is not None and screen_muted != self._muted
RunReconcileTest ==
    /\ pcRun = "L216"
    /\ IF ReconcileNeeded(screen_muted, _muted)
       THEN pcRun' = "L218" /\ UNCHANGED believedAfterReconcile
       ELSE /\ pcRun' = "L220"
            /\ believedAfterReconcile' = Rec("cycle", <<_muted>>, believedAfterReconcile)
    /\ UNCHANGED <<_muted, ad_pos, ad_i, screen_muted, audioVars>>
    /\ UNCHANGED <<edge, reconciled, cycleCall, cycleRet, prevFail>>
    /\ UNCHANGED <<recording, waited, iconEverMatched, stopHist>>
    /\ RunFrame

\* 218: self._muted = screen_muted
RunReconcileSet ==
    /\ pcRun = "L218"
    /\ _muted' = screen_muted[1]
    /\ pcRun' = "L220"
    /\ reconciled' = Rec("cycle", TRUE, reconciled)
    /\ believedAfterReconcile' = Rec("cycle", <<_muted'>>, believedAfterReconcile)
    /\ UNCHANGED <<ad_pos, ad_i, screen_muted, audioVars>>
    /\ UNCHANGED <<edge, cycleCall, cycleRet, prevFail>>
    /\ UNCHANGED <<recording, waited, iconEverMatched, stopHist>>
    /\ RunFrame

\* 220 with the branches exchanged
RunBranchInverted ==
    /\ pcRun = "L220"
    /\ pcRun' = IF ad_pos /= None THEN "L230" ELSE "L222"
    /\ UNCHANGED <<_muted, ad_pos, ad_i, screen_muted, audioVars, hist>>
    /\ RunFrame

\* 220: if ad_pos is not None
RunBranch ==
    /\ pcRun = "L220"
    /\ pcRun' = IF ad_pos /= None THEN "L222" ELSE "L230"
    /\ UNCHANGED <<_muted, ad_pos, ad_i, screen_muted, audioVars, hist>>
    /\ RunFrame

\* 222 with the test dropped: mute on every cycle that sees an ad
RunAdTestAlways ==
    /\ pcRun = "L222"
    /\ pcRun' = "L224"
    /\ UNCHANGED <<_muted, ad_pos, ad_i, screen_muted, audioVars, hist>>
    /\ RunFrame

\* 222: if not self._muted
RunAdTest ==
    /\ pcRun = "L222"
    /\ pcRun' = IF ~_muted THEN "L224" ELSE "L226"
    /\ UNCHANGED <<_muted, ad_pos, ad_i, screen_muted, audioVars, hist>>
    /\ RunFrame

\* 224: set_spotify_mute(True) is entered
RunMuteCall ==
    /\ pcRun = "L224"
    /\ pcRun' = "L224c"
    /\ cycleCall' = Rec("cycle", "mute", cycleCall)
    /\ UNCHANGED <<_muted, ad_pos, ad_i, screen_muted, audioVars>>
    /\ UNCHANGED <<believedAfterReconcile, reconciled, cycleRet, prevFail>>
    /\ UNCHANGED <<recording, waited, edge, iconEverMatched, stopHist>>
    /\ RunFrame

\* the worker's actuator call at line `line` runs up to r: to its return (then,
\* if `assign`, the assignment of the next line, else the sleep after it), or
\* to the SetMute or click that is pending
RunActuatorReturn(line, muted, r, assign) ==
    /\ pcRun = line
    /\ Actuate(muted, r)
    /\ pcRun' = IF r.raised THEN "died"
                ELSE IF r.pending THEN (IF muted THEN "L224k" ELSE "L232k")
                ELSE IF muted THEN (IF assign THEN "L225" ELSE "L226")
                ELSE (IF assign THEN "L233" ELSE "L234")
    /\ cycleRet' = IF r.pending \/ r.raised THEN cycleRet
                   ELSE Rec("cycle", <<r.ret>>, cycleRet)
    /\ UNCHANGED <<_muted, ad_pos, ad_i, screen_muted>>
    /\ UNCHANGED <<edge, believedAfterReconcile, reconciled, cycleCall, prevFail>>
    /\ UNCHANGED <<recording, waited, iconEverMatched, stopHist>>
    /\ RunFrame

\* the SetMute (81) or click (100) of the worker's actuator call and its
\* return of True; an exception it raises ends run()
RunActuatorAct(line, muted, r) ==
    /\ pcRun = line
    /\ Actuate(muted, r)
    /\ pcRun' = IF r.raised THEN "died"
                ELSE IF muted THEN "L225" ELSE "L233"
    /\ cycleRet' = IF r.raised THEN cycleRet ELSE Rec("cycle", <<r.ret>>, cycleRet)
    /\ UNCHANGED <<_muted, ad_pos, ad_i, screen_muted>>
    /\ UNCHANGED <<edge, believedAfterReconcile, reconciled, cycleCall, prevFail>>
    /\ UNCHANGED <<recording, waited, iconEverMatched, stopHist>>
    /\ RunFrame

\* 224-225 with the result ignored: believed muted whatever the call returned
RunMuteReturnIgnoringResult ==
    \E raises \in BOOLEAN :
        RunActuatorReturn("L224c", TRUE, set_spotify_mute(TRUE, raises), TRUE)

\* 224: if set_spotify_mute(True): the call acts and returns
RunMuteReturn ==
    \E raises \in BOOLEAN :
        LET r == set_spotify_mute(TRUE, raises)
        IN RunActuatorReturn("L224c", TRUE, r, r.ret)

\* 224: set_spotify_mute(True), SetMute on the session found or the click on
\* the volume icon found
RunMuteAct ==
    \E raises \in BOOLEAN :
        RunActuatorAct("L224k", TRUE, set_spotify_mute_act(TRUE, raises))

\* 225: self._muted = True
RunMuteSet ==
    /\ pcRun = "L225"
    /\ _muted' = TRUE
    /\ pcRun' = "L226"
    /\ UNCHANGED <<ad_pos, ad_i, screen_muted, audioVars, hist>>
    /\ RunFrame

\* the sleep that ends a cycle, of `interval` milliseconds
\* history: the cycle's records are cleared, a failed call is remembered
RunSleep(line, interval) ==
    /\ pcRun = line
    /\ pcRun' = "L206"
    /\ waited' = Rec("cycle", interval, waited)
    /\ prevFail' = IF cycleRet = <<FALSE>> THEN cycleCall ELSE "none"
    /\ edge' = "none"
    /\ believedAfterReconcile' = None
    /\ reconciled' = FALSE
    /\ cycleCall' = "none"
    /\ cycleRet' = None
    /\ UNCHANGED <<_muted, ad_pos, ad_i, screen_muted, audioVars>>
    /\ UNCHANGED <<recording, iconEverMatched, stopHist>>
    /\ RunFrame

\* 226 with the interval of line 234
RunSleepActiveLong ==
    RunSleep("L226", SLEEP_AD_IDLE)

\* 226: time.sleep(self.SLEEP_AD_ACTIVE)
RunSleepActive ==
    RunSleep("L226", SLEEP_AD_ACTIVE)

\* 230 with the test dropped: unmute on every cycle that sees no ad
RunNoAdTestAlways ==
    /\ pcRun = "L230"
    /\ pcRun' = "L232"
    /\ UNCHANGED <<_muted, ad_pos, ad_i, screen_muted, audioVars, hist>>
    /\ RunFrame

\* 230: if self._muted
RunNoAdTest ==
    /\ pcRun = "L230"
    /\ pcRun' = IF _muted THEN "L232" ELSE "L234"
    /\ UNCHANGED <<_muted, ad_pos, ad_i, screen_muted, audioVars, hist>>
    /\ RunFrame

\* 232: set_spotify_mute(False) is entered
RunUnmuteCall ==
    /\ pcRun = "L232"
    /\ pcRun' = "L232c"
    /\ cycleCall' = Rec("cycle", "unmute", cycleCall)
    /\ unmutesSinceStop' = Rec("stop", IF mutedAtStop /= None THEN Inc(unmutesSinceStop)
                                       ELSE unmutesSinceStop, unmutesSinceStop)
    /\ unmutedSinceDead' = Rec("stop", unmutedSinceDead \/ ~program_running,
                               unmutedSinceDead)
    /\ UNCHANGED <<_muted, ad_pos, ad_i, screen_muted, audioVars>>
    /\ UNCHANGED <<believedAfterReconcile, reconciled, cycleRet, prevFail>>
    /\ UNCHANGED <<recording, waited, edge, iconEverMatched>>
    /\ UNCHANGED <<mutedAtStop, mutedAtDead, leftByStop>>
    /\ RunFrame

\* 232: if set_spotify_mute(False): the call acts and returns
RunUnmuteReturn ==
    \E raises \in BOOLEAN :
        LET r == set_spotify_mute(FALSE, raises)
        IN RunActuatorReturn("L232c", FALSE, r, r.ret)

\* 232: set_spotify_mute(False), SetMute on the session found or the click
\* on the mute icon found
RunUnmuteAct ==
    \E raises \in BOOLEAN :
        RunActuatorAct("L232k", FALSE, set_spotify_mute_act(FALSE, raises))

\* 233: self._muted = False
RunUnmuteSet ==
    /\ pcRun = "L233"
    /\ _muted' = FALSE
    /\ pcRun' = "L234"
    /\ UNCHANGED <<ad_pos, ad_i, screen_muted, audioVars, hist>>
    /\ RunFrame

\* 234: time.sleep(self.SLEEP_AD_IDLE)
RunSleepIdle ==
    RunSleep("L234", SLEEP_AD_IDLE)

RunThread ==
    \/ RunWhile \/ RunPaused \/ RunPausedSleep
    \/ RunCheckAd \/ RunObserveMute \/ RunObserveVolume
    \/ RunReconcileTest \/ RunReconcileSet \/ RunBranch
    \/ RunAdTest \/ RunMuteCall \/ RunMuteReturn \/ RunMuteAct \/ RunMuteSet
    \/ RunSleepActive
    \/ RunNoAdTest \/ RunUnmuteCall \/ RunUnmuteReturn \/ RunUnmuteAct
    \/ RunUnmuteSet \/ RunSleepIdle

(***************************************************************************)
(* The shell thread: main, show_menu, MuteAd.stop (src 236-289)            *)
(***************************************************************************)
ShellFrame == UNCHANGED <<runVars, USE_PYCAW, envVars, detectVars>>

\* where stop() returns to: show_menu returns True, main breaks and enters
\* its finally block (288); from there stop() returns to join (289)
AfterStop == IF stopCaller = "show_menu" THEN "S238" ELSE "join"
CallerAfterStop == IF stopCaller = "show_menu" THEN "finally" ELSE stopCaller
\* history: the fields as the call of stop() made by show_menu leaves them
LeftAtReturn(muted) ==
    Rec("stop", IF stopCaller = "show_menu"
                THEN <<running, program_running, muted>>
                ELSE leftByStop,
        leftByStop)

\* 253-255: index 0, Run
MenuRun ==
    /\ pcShell = "menu"
    /\ running' = TRUE
    /\ UNCHANGED <<program_running, _muted, shellVars, audioVars, hist>>
    /\ ShellFrame

\* 256-257: index 1, Stop: mute_ad.stop() is entered
MenuStop ==
    /\ pcShell = "menu"
    /\ pcShell' = "S238"
    /\ stopCaller' = "show_menu"
    /\ UNCHANGED <<progVars, audioVars, hist>>
    /\ ShellFrame

\* 260-263: index 2, Diagnose, up to input()
MenuDiagnose ==
    /\ pcShell = "menu"
    /\ pcShell' = "diagnose"
    /\ UNCHANGED <<progVars, stopCaller, audioVars, hist>>
    /\ ShellFrame

\* 263-265: Enter pressed, back to the menu
DiagnoseReturn ==
    /\ pcShell = "diagnose"
    /\ pcShell' = "menu"
    /\ UNCHANGED <<progVars, stopCaller, audioVars, hist>>
    /\ ShellFrame

\* the positions of the shell thread inside stop()
StopLines == {"S238", "S239", "S240", "S241", "S241c", "S241k", "S242"}

\* 285-288: KeyboardInterrupt inside the try block; the finally block calls stop()
KeyboardInterrupt ==
    /\ \/ pcShell \in {"menu", "diagnose"}
       \/ /\ pcShell \in StopLines
          /\ stopCaller = "show_menu"
    /\ pcShell' = "S238"
    /\ stopCaller' = "finally"
    /\ UNCHANGED <<progVars, audioVars, hist>>
    /\ ShellFrame

\* 288-289: KeyboardInterrupt inside the finally block, in stop() or in
\* join(): no handler is left and the exception leaves main(); the daemon
\* worker runs on until the interpreter has shut down
KeyboardInterruptInFinally ==
    /\ pcShell \in StopLines \cup {"join"}
    /\ stopCaller = "finally"
    /\ pcShell' = "crashed"
    /\ UNCHANGED <<progVars, stopCaller, audioVars, hist>>
    /\ ShellFrame

\* 238: self.running = False
\* history: what was believed when stop() was first entered
StopRunning ==
    /\ pcShell = "S238"
    /\ running' = FALSE
    /\ pcShell' = "S239"
    /\ mutedAtStop' = Rec("stop", IF mutedAtStop = None THEN <<_muted>> ELSE mutedAtStop,
                          mutedAtStop)
    /\ UNCHANGED <<program_running, _muted, stopCaller, audioVars>>
    /\ UNCHANGED <<recording, waited, cycleHist, iconEverMatched>>
    /\ UNCHANGED <<mutedAtDead, unmutesSinceStop, unmutedSinceDead, leftByStop>>
    /\ ShellFrame

\* 239: self.program_running = False
\* history: what was believed when program_running became false
StopProgramRunning ==
    /\ pcShell = "S239"
    /\ program_running' = FALSE
    /\ pcShell' = "S240"
    /\ mutedAtDead' = Rec("stop", IF mutedAtDead = None THEN <<_muted>> ELSE mutedAtDead,
                          mutedAtDead)
    /\ UNCHANGED <<running, _muted, stopCaller, audioVars>>
    /\ UNCHANGED <<recording, waited, cycleHist, iconEverMatched>>
    /\ UNCHANGED <<mutedAtStop, unmutesSinceStop, unmutedSinceDead, leftByStop>>
    /\ ShellFrame

\* 240: if self._muted
StopTest ==
    /\ pcShell = "S240"
    /\ IF _muted
       THEN pcShell' = "S241" /\ UNCHANGED <<stopCaller, leftByStop>>
       ELSE /\ pcShell' = AfterStop
            /\ stopCaller' = CallerAfterStop
            /\ leftByStop' = LeftAtReturn(_muted)
    /\ UNCHANGED <<progVars, audioVars>>
    /\ UNCHANGED <<recording, waited, cycleHist, iconEverMatched>>
    /\ UNCHANGED <<mutedAtStop, mutedAtDead, unmutesSinceStop, unmutedSinceDead>>
    /\ ShellFrame

\* 241: set_spotify_mute(False) is entered
StopUnmuteCall ==
    /\ pcShell = "S241"
    /\ pcShell' = "S241c"
    /\ unmutesSinceStop' = Rec("stop", Inc(unmutesSinceStop), unmutesSinceStop)
    /\ unmutedSinceDead' = Rec("stop", TRUE, unmutedSinceDead)
    /\ UNCHANGED <<progVars, stopCaller, audioVars>>
    /\ UNCHANGED <<recording, waited, cycleHist, iconEverMatched>>
    /\ UNCHANGED <<mutedAtStop, mutedAtDead, leftByStop>>
    /\ ShellFrame

\* stop()'s actuator call with result r: on to the SetMute or click that is
\* pending, or to line 242 (the value returned is dropped).
\* An exception leaves stop(): to main's finally block from show_menu,
\* out of main from the finally block.
StopActuator(r) ==
    /\ Actuate(FALSE, r)
    /\ IF ~r.raised
       THEN /\ pcShell' = IF r.pending THEN "S241k" ELSE "S242"
            /\ UNCHANGED stopCaller
       ELSE IF stopCaller = "show_menu"
       THEN pcShell' = "S238" /\ stopCaller' = "finally"
       ELSE pcShell' = "crashed" /\ UNCHANGED stopCaller

\* 241: set_spotify_mute(False) runs to its return, or to the SetMute or
\* click that is pending
StopUnmuteReturn ==
    /\ pcShell = "S241c"
    /\ \E raises \in BOOLEAN : StopActuator(set_spotify_mute(FALSE, raises))
    /\ UNCHANGED <<progVars, hist>>
    /\ ShellFrame

\* 241: set_spotify_mute(False), SetMute on the session found (81) or the
\* click on the mute icon found (100)
StopUnmuteAct ==
    /\ pcShell = "S241k"
    /\ \E raises \in BOOLEAN :
          StopActuator([pending |-> FALSE] @@ set_spotify_mute_act(FALSE, raises))
    /\ UNCHANGED <<progVars, hist>>
    /\ ShellFrame

\* 242: self._muted = False, and stop() returns
StopSet ==
    /\ pcShell = "S242"
    /\ _muted' = FALSE
    /\ pcShell' = AfterStop
    /\ stopCaller' = CallerAfterStop
    /\ leftByStop' = LeftAtReturn(FALSE)
    /\ UNCHANGED <<program_running, running, audioVars>>
    /\ UNCHANGED <<recording, waited, cycleHist, iconEverMatched>>
    /\ UNCHANGED <<mutedAtStop, mutedAtDead, unmutesSinceStop, unmutedSinceDead>>
    /\ ShellFrame

\* 289: mute_ad.join() returns once the worker thread has ended; main returns
Join ==
    /\ pcShell = "join"
    /\ pcRun \in {"done", "died"}
    /\ pcShell' = "exited"
    /\ UNCHANGED <<progVars, stopCaller, audioVars, hist>>
    /\ ShellFrame

\* 292-293 after an exception has left main(): the interpreter shuts down
\* and the process ends, the daemon worker (200) with it
InterpreterShutdown ==
    /\ pcShell = "crashed"
    /\ pcShell' = "killed"
    /\ UNCHANGED <<progVars, stopCaller, audioVars, hist>>
    /\ ShellFrame

ShellThread ==
    \/ MenuRun \/ MenuStop \/ MenuDiagnose \/ DiagnoseReturn
    \/ KeyboardInterrupt \/ KeyboardInterruptInFinally
    \/ StopRunning \/ StopProgramRunning \/ StopTest
    \/ StopUnmuteCall \/ StopUnmuteReturn \/ StopUnmuteAct \/ StopSet \/ Join
    \/ InterpreterShutdown

(***************************************************************************)
(* The environment, while the process lives                                *)
(***************************************************************************)
EnvFrame == UNCHANGED <<progVars, runVars, shellVars, USE_PYCAW, hist, detectVars>>

\* ads come and go on the screen
EnvAds ==
    /\ ProcessLives
    /\ \E s \in SUBSET AdSet : s /= adsOnScreen /\ adsOnScreen' = s
    /\ UNCHANGED <<uiVisible, spotifyProc, matcherRaises, audioVars>>
    /\ EnvFrame

\* the player's window is shown, hidden or minimised
EnvWindow ==
    /\ ProcessLives
    /\ uiVisible' = ~uiVisible
    /\ UNCHANGED <<adsOnScreen, spotifyProc, matcherRaises, audioVars>>
    /\ EnvFrame

\* the user clicks the player's mute button
EnvUserMute ==
    /\ ProcessLives
    /\ appMuted' = ~appMuted
    /\ appMutedByCtl' = FALSE
    /\ UNCHANGED <<sessionMuted, ownMute, envVars>>
    /\ EnvFrame

\* the player's audio session appears or goes away
EnvSession ==
    /\ ProcessLives
    /\ spotifyProc' = ~spotifyProc
    /\ UNCHANGED <<adsOnScreen, uiVisible, matcherRaises, audioVars>>
    /\ EnvFrame

\* the matcher starts or stops raising (no screen capture, template unreadable)
EnvMatcher ==
    /\ ProcessLives
    /\ matcherRaises' = ~matcherRaises
    /\ UNCHANGED <<adsOnScreen, uiVisible, spotifyProc, audioVars>>
    /\ EnvFrame

Environment == EnvAds \/ EnvWindow \/ EnvUserMute \/ EnvSession \/ EnvMatcher

Next == RunThread \/ ShellThread \/ Environment

Spec == Init /\ [][Next]_vars
SpecStop == InitStop /\ [][Next]_vars
SpecCycle == InitCycle /\ [][Next]_vars
\* both threads are scheduled again and again: the worker's sleeps end,
\* stop(), once entered, runs to its end, and an interpreter whose main() was
\* left by an exception shuts down
StopSteps ==
    \/ StopRunning \/ StopProgramRunning \/ StopTest
    \/ StopUnmuteCall \/ StopUnmuteReturn \/ StopUnmuteAct \/ StopSet \/ Join
    \/ InterpreterShutdown
FairSpec == Init /\ [][Next]_vars /\ WF_vars(RunThread) /\ WF_vars(StopSteps)
\* the same, with the history of stop() recorded
FairSpecStop == InitStop /\ [][Next]_vars /\ WF_vars(RunThread) /\ WF_vars(StopSteps)

(***************************************************************************)
(* The detector and the click actuator on their own: one call, on every    *)
(* screen and every outcome of the matcher for the two icon templates      *)
(***************************************************************************)
MatchOutcomes == {"screen", "match", "miss", "raise"}

InitDetect ==
    /\ InitProgram
    /\ recording = "none"
    /\ templateMatch \in [IconSet -> MatchOutcomes]
    /\ result = NoResult

DetectFrame == UNCHANGED <<progVars, runVars, shellVars, USE_PYCAW, envVars, hist>>

\* is_muted_on_screen() is called
CallIsMutedOnScreen ==
    /\ result = NoResult
    /\ result' = [fn |-> "is_muted_on_screen", muted |-> FALSE,
                  value |-> is_muted_on_screen, clicks |-> 0]
    /\ UNCHANGED <<templateMatch, audioVars>>
    /\ DetectFrame

\* _mute_via_click(muted) is called, and returns or raises
CallMuteViaClick(muted) ==
    /\ result = NoResult
    /\ \E raises \in BOOLEAN :
       LET r == mute_via_click(muted, raises)
       IN /\ result' = [fn |-> "mute_via_click", muted |-> muted,
                        value |-> IF r.raised THEN Raise ELSE <<r.ret>>,
                        clicks |-> r.clicks]
          /\ appMuted' = r.appMuted
    /\ UNCHANGED <<templateMatch, sessionMuted, appMutedByCtl, ownMute>>
    /\ DetectFrame

NextDetect ==
    \/ CallIsMutedOnScreen
    \/ \E muted \in BOOLEAN : CallMuteViaClick(muted)

SpecDetect == InitDetect /\ [][NextDetect]_vars

(***************************************************************************)
(* Claims                                                                  *)
(***************************************************************************)

\* C1: once main() has called stop() and join() has returned, the player's
\* audio is not muted as the effect of a mute call of the controller.
C1_FailSafeUnmute ==
    pcShell = "exited" => ~MutedByController

\* C2: when the run() loop has exited, Believed Mute State is false, and if it
\* was true when program_running became false, the actuator has been invoked
\* with target unmute since then.
C2_UnmutedAtLoopExit ==
    pcRun = "done" =>
        /\ ~_muted
        /\ mutedAtDead = <<TRUE>> => unmutedSinceDead

\* C3: when stop() is entered while Believed Mute State is true, exactly one
\* unmute call is issued from then on (by either thread, up to the exit of
\* the process), and Believed Mute State ends false.
C3_ExactlyOneUnmute ==
    (pcShell = "exited" /\ pcRun = "done" /\ mutedAtStop = <<TRUE>>) =>
        (unmutesSinceStop = 1 /\ ~_muted)

\* the controller is enabled under the best conditions: the matcher works, the
\* player's window is visible, its audio session exists (so either actuator
\* can succeed), and the player's own mute toggle has come to rest
AdVisible == adsOnScreen /= {}
Enabled ==
    /\ ProcessLives /\ pcRun /= "died" /\ running
    /\ ~matcherRaises /\ uiVisible /\ spotifyProc
ToggleAtRest == <>[]appMuted \/ <>[]~appMuted

\* C4: while the controller is enabled and the actuator succeeds, an ad that
\* stays visible leads to the audio being muted for good, and an ad that has
\* gone for good leads to the audio no longer being muted by the controller.
C4_MutesDuringAdAndRestores ==
    /\ (<>[](Enabled /\ AdVisible) /\ ToggleAtRest) => <>[]AudioMuted
    /\ (<>[](Enabled /\ ~AdVisible) /\ ToggleAtRest) => <>[]~MutedByController

\* the worker is at the sleep that ends a cycle of an enabled loop: `running`
\* is set once and cleared only by stop(), so it was true all through the cycle
CycleEnd == pcRun \in {"L226", "L234"} /\ running

\* C5: the number of mute calls equals the number of false-to-true edges of ad
\* presence that occur while Believed Mute State is false, and the number of
\* unmute calls the number of true-to-false edges that occur while it is true.
\* A cycle takes one sample and makes at most one call, so the counts agree
\* after every cycle exactly when every cycle makes a mute call if and only
\* if its sample is such a rising edge, and an unmute call if and only if its
\* sample is such a falling edge.
C5_CallsEqualEdges ==
    CycleEnd =>
        /\ (cycleCall = "mute") <=> (edge = "up")
        /\ (cycleCall = "unmute") <=> (edge = "down")

\* C5 as amended: in an enabled cycle that follows no failed actuator call
\* and whose reconciliation step adopts nothing, a mute call is made if and
\* only if the sample is a rising edge of ad presence while Believed Mute
\* State is false, and an unmute call if and only if it is a falling edge
\* while Believed Mute State is true.
C5_CallsEqualEdgesWhenSettled ==
    (CycleEnd /\ prevFail = "none" /\ ~reconciled) =>
        /\ (cycleCall = "mute") <=> (edge = "up")
        /\ (cycleCall = "unmute") <=> (edge = "down")

\* an ad still present on the next cycle, muted by the cycle before: no call
C5_Witness ==
    /\ CycleEnd
    /\ prevFail = "none"
    /\ ~reconciled
    /\ ad_pos /= None
    /\ edge = "none"
    /\ cycleCall = "none"
    /\ MutedByController

\* C6: in an enabled cycle in which ad presence and Believed Mute State agree
\* after the reconciliation step, the loop makes no actuator call and leaves
\* Believed Mute State as it was.
C6_NoCallWhenAgreed ==
    (CycleEnd /\ believedAfterReconcile = <<ad_pos /= None>>) =>
        (cycleCall = "none" /\ _muted = believedAfterReconcile[1])

C6_Witness ==
    /\ CycleEnd
    /\ believedAfterReconcile = <<ad_pos /= None>>
    /\ ad_pos /= None
    /\ _muted

\* C7: an actuator call of the loop that returns false leaves Believed Mute
\* State as it was, and the next enabled cycle that sees the same ad presence
\* and whose reconciliation step adopts nothing makes the same call again.
C7_FailureKeepsBeliefAndRetries ==
    CycleEnd =>
        /\ cycleRet = <<FALSE>> => _muted = believedAfterReconcile[1]
        /\ (prevFail = "mute" /\ ad_pos /= None /\ ~reconciled) => cycleCall = "mute"
        /\ (prevFail = "unmute" /\ ad_pos = None /\ ~reconciled) => cycleCall = "unmute"

C7_Witness ==
    /\ CycleEnd
    /\ prevFail = "unmute"
    /\ ad_pos = None
    /\ ~reconciled
    /\ cycleCall = "unmute"
    /\ cycleRet = <<FALSE>>
    /\ _muted

\* a step of the worker thread from line `line`
RunStepFrom(line) == pcRun = line /\ pcRun' /= line

\* C8: where the observed screen state is Muted or Unmuted and differs from
\* Believed Mute State, the reconciliation step sets Believed Mute State to
\* the observed value; where it is Unknown or equal, the step leaves Believed
\* Mute State as it was; either way it makes no actuator call.
C8_ReconcileAdoptsObserved ==
    [][/\ RunStepFrom("L216") =>
            /\ pcRun' = IF screen_muted /= None /\ screen_muted[1] /= _muted
                        THEN "L218" ELSE "L220"
            /\ UNCHANGED <<_muted, audioVars, cycleCall>>
       /\ RunStepFrom("L218") =>
            /\ pcRun' = "L220"
            /\ _muted' = screen_muted[1]
            /\ UNCHANGED <<audioVars, cycleCall>>
      ]_vars

C8_Witness ==
    /\ pcRun = "L220"
    /\ running
    /\ reconciled
    /\ _muted = screen_muted[1]
    /\ cycleCall = "none"

\* C9: as long as no mute-icon template has matched in any cycle, the
\* reconciliation step is not taken; Believed Mute State becomes true only by
\* the assignment after a mute call that returned true, and false only by the
\* assignment after an unmute call that returned true or by stop().
C9_UnknownNeverReconciles ==
    [][~iconEverMatched' =>
            /\ pcRun' /= "L218"
            /\ (~_muted /\ _muted') =>
                    (RunStepFrom("L225") /\ cycleCall = "mute" /\ cycleRet = <<TRUE>>)
            /\ (_muted /\ ~_muted') =>
                    \/ RunStepFrom("L233") /\ cycleCall = "unmute" /\ cycleRet = <<TRUE>>
                    \/ pcShell = "S242" /\ pcShell' /= "S242"
      ]_vars

\* believed muted after a cycle that observed the screen, with no icon ever matched
C9_Witness ==
    /\ ~iconEverMatched
    /\ pcRun = "L226"
    /\ screen_muted = None
    /\ cycleRet = <<TRUE>>
    /\ _muted

\* a step that ends run(): the thread leaves the loop or dies by an exception
LoopEnds == pcRun \notin {"done", "died"} /\ pcRun' \in {"done", "died"}
\* what does end the loop: the test of line 206 finding program_running false,
\* or an exception raised inside an actuator call (224, 232); no detection
\* miss, no exception of the matcher and no actuator call returning False
C10_EndsByStopOrActuatorException ==
    [][LoopEnds =>
        \/ pcRun = "L206" /\ ~program_running
        \/ pcRun \in {"L224c", "L224k", "L232c", "L232k"} /\ program_running' = program_running
      ]_vars

\* C10: where the run() loop has exited, program_running is false and stop()
\* has been called: no detection miss, matcher exception or actuator failure
\* ends the loop.
C10_LoopEndsOnlyByStop ==
    pcRun \in {"done", "died"} => (~program_running /\ stopCaller /= "none")

\* once program_running is false the worker thread ends, unless the process
\* ends first (an exception has left main() from its finally block)
C11_Terminates ==
    ~program_running ~> (pcRun \in {"done", "died"} \/ pcShell = "killed")
\* ... without entering a detection cycle (207 to 212) any more
C11_NoNewCycle ==
    [][~program_running => ~(pcRun = "L207" /\ pcRun' = "L212")]_vars
\* ... and if Believed Mute State was true when program_running became false,
\* an unmute call has been issued by the time the loop has ended
C11_UnmuteBeforeExit ==
    [](pcRun = "done" /\ mutedAtDead = <<TRUE>> => unmutedSinceDead)

\* C11: after stop() has set program_running to false the run() loop
\* eventually terminates, starts no new detection cycle, and the fail-safe
\* unmute has been issued before the loop terminates.
C11_Cancellation ==
    C11_Terminates /\ C11_NoNewCycle /\ C11_UnmuteBeforeExit

\* a thread is inside set_spotify_mute: the call is entered and has not returned
RunCallInFlight == pcRun \in {"L224c", "L224k", "L232c", "L232k"}
StopCallInFlight == pcShell \in {"S241c", "S241k"}

\* C12: the run() loop and stop() are never inside set_spotify_mute at the
\* same time.
C12_NoConcurrentActuatorCalls ==
    ~(RunCallInFlight /\ StopCallInFlight)

\* a step of the run() thread; a step of the shell thread
RunThreadStep == <<pcRun, ad_i>>' /= <<pcRun, ad_i>> /\ UNCHANGED shellVars
ShellThreadStep == UNCHANGED runVars /\ (pcShell' /= pcShell \/ running' /= running)

\* C13: every step that changes Believed Mute State is a step of the run()
\* thread, and a step of the shell thread changes no field of MuteAd other
\* than running and program_running.
C13_LoopSoleWriterOfBelief ==
    [][/\ _muted' /= _muted => RunThreadStep
       /\ ShellThreadStep => UNCHANGED _muted
      ]_vars

\* what a step of the loop leaves alone when it does no detection work
NoDetectionWork == UNCHANGED <<_muted, ad_pos, screen_muted, audioVars>>

\* C14: while running is false, every step of the loop is the test of line
\* 206 or the pause of lines 207-209: no ad detection, no mute-icon
\* observation, no actuator call, no change to Believed Mute State.
C14_PausedDoesNothing ==
    [][(~running /\ RunThreadStep) =>
            (pcRun \in {"L206", "L207", "L208"} /\ NoDetectionWork)
      ]_vars

\* C14 as amended: before the first Run command the loop does no detection
\* work at all; an iteration that finds running false at line 207 sleeps and
\* goes back to line 206 without any detection work; and a detection cycle is
\* entered only from line 207 with running true.  (A cycle in progress when
\* stop() clears running is run to its end.)
C14_PausedIterationDoesNothing ==
    [][/\ (~running /\ stopCaller = "none" /\ RunThreadStep) =>
            (pcRun \in {"L206", "L207", "L208"} /\ NoDetectionWork)
       /\ (~running /\ RunStepFrom("L207")) =>
            (pcRun' = "L208" /\ NoDetectionWork)
       /\ RunStepFrom("L208") => (pcRun' = "L206" /\ NoDetectionWork)
       /\ (pcRun /= "L212" /\ pcRun' = "L212") => (pcRun = "L207" /\ running)
      ]_vars

\* paused by stop() with an ad on screen and the player believed muted: the
\* loop has found running false and sleeps at line 208
C14_Witness ==
    /\ pcRun = "L208"
    /\ ~running
    /\ program_running
    /\ stopCaller /= "none"
    /\ _muted
    /\ AdVisible

\* the step that is the sleep ending a cycle of an enabled loop
CycleSleep == running /\ (RunStepFrom("L226") \/ RunStepFrom("L234"))

\* C15: at the end of every enabled cycle the loop waits SLEEP_AD_ACTIVE when
\* Believed Mute State is true and SLEEP_AD_IDLE when it is false, whether or
\* not the cycle's actuator call failed; after a mute call it waits the short
\* interval and after an unmute call the long one.
C15_CadenceFollowsBelief ==
    [][CycleSleep =>
            /\ waited' = IF _muted THEN SLEEP_AD_ACTIVE ELSE SLEEP_AD_IDLE
            /\ cycleCall = "mute" => waited' = SLEEP_AD_ACTIVE
            /\ cycleCall = "unmute" => waited' = SLEEP_AD_IDLE
      ]_vars

\* C15 as amended: the loop waits SLEEP_AD_ACTIVE at the end of a cycle that
\* detected an ad and SLEEP_AD_IDLE at the end of one that did not, also when
\* the cycle's actuator call failed; in a cycle without a failed call that is
\* the short interval when Believed Mute State is true and the long one when
\* it is false; after a mute call it is the short interval and after an unmute
\* call the long one.
C15_CadenceFollowsAdPresence ==
    [][CycleSleep =>
            /\ waited' = IF ad_pos /= None THEN SLEEP_AD_ACTIVE ELSE SLEEP_AD_IDLE
            /\ cycleRet /= <<FALSE>> =>
                    waited' = IF _muted THEN SLEEP_AD_ACTIVE ELSE SLEEP_AD_IDLE
            /\ cycleCall = "mute" => waited' = SLEEP_AD_ACTIVE
            /\ cycleCall = "unmute" => waited' = SLEEP_AD_IDLE
      ]_vars

\* the short wait after a cycle whose mute call failed: an ad was detected and
\* Believed Mute State is false
C15_Witness ==
    /\ pcRun = "L206"
    /\ running
    /\ waited = SLEEP_AD_ACTIVE
    /\ prevFail = "mute"
    /\ ad_pos /= None
    /\ ~_muted

\* C16: every unmute call issued by run() follows a mute call of the
\* controller that returned true, with no unmute call that returned true in
\* between; and no step of the loop ends a mute of the player that is not the
\* effect of a mute call of the controller.
C16_UnmutesOnlyOwnMute ==
    [][/\ RunStepFrom("L232") => ownMute
       /\ (RunThreadStep /\ AudioMuted /\ ~MutedByController) => AudioMuted'
      ]_vars

\* the matcher finds the template on the screen; an exception is no match
Matches(image) == locateCenterOnScreen(image) \notin {None, Raise}

\* C17: is_muted_on_screen returns True (Muted) whenever the mute template
\* matches, whether or not the volume template matches too; False (Unmuted)
\* exactly when the mute template does not match and the volume template
\* does; None (Unknown) exactly when neither matches; a matcher exception
\* counts as no match.
C17_IconStateByTemplates ==
    result.fn = "is_muted_on_screen" =>
        /\ Matches(image_mute) => result.value = <<TRUE>>
        /\ (result.value = <<FALSE>>) <=> (~Matches(image_mute) /\ Matches(image_volume))
        /\ (result.value = None) <=> (~Matches(image_mute) /\ ~Matches(image_volume))

\* both templates match: Muted
C17_Witness ==
    /\ result.fn = "is_muted_on_screen"
    /\ Matches(image_mute)
    /\ Matches(image_volume)
    /\ result.value = <<TRUE>>

\* the step that is one call of _mute_via_click
ClickCall == result.fn = "none" /\ result'.fn = "mute_via_click"
\* the icon showing the state `muted`
IconOf(muted) == IF muted THEN image_mute ELSE image_volume

\* what _mute_via_click(T) does when pyautogui carries the click out: one
\* click, which toggles the player, and True when the icon of the state
\* opposite to T is found; else False without a click; a player whose screen
\* shows the icon of T and not the icon of the opposite state is left as it is.
\* Whatever the click does, nothing is clicked unless the opposite icon is
\* found.
C18_WhenClickCarriedOut ==
    [][ClickCall =>
        LET T == result'.muted
        IN /\ (Matches(IconOf(~T)) /\ result'.value /= Raise) =>
                /\ result'.value = <<TRUE>>
                /\ result'.clicks = 1
                /\ appMuted' = ~appMuted
           /\ ~Matches(IconOf(~T)) =>
                /\ result'.value = <<FALSE>>
                /\ result'.clicks = 0
                /\ appMuted' = appMuted
           /\ (Matches(IconOf(T)) /\ ~Matches(IconOf(~T))) => appMuted' = appMuted
           /\ result'.value = Raise => (result'.clicks = 0 /\ appMuted' = appMuted)
      ]_vars

\* C18: _mute_via_click(T) makes one click, which toggles the player, and
\* returns True when the icon of the state opposite to T is found; else it
\* returns False without a click; so a player whose screen shows the icon of
\* T and not the icon of the opposite state is left as it is.
C18_ClickOnlyOppositeIcon ==
    [][ClickCall =>
        LET T == result'.muted
        IN /\ Matches(IconOf(~T)) =>
                /\ result'.value = <<TRUE>>
                /\ result'.clicks = 1
                /\ appMuted' = ~appMuted
           /\ ~Matches(IconOf(~T)) =>
                /\ result'.value = <<FALSE>>
                /\ result'.clicks = 0
                /\ appMuted' = appMuted
           /\ (Matches(IconOf(T)) /\ ~Matches(IconOf(~T))) => appMuted' = appMuted
      ]_vars

\* C19: a cycle of the loop makes at most one actuator call: a mute call only
\* in a cycle whose sample found an ad, an unmute call only in a cycle whose
\* sample found none; and the loop acts on the player only by that call.
C19_OneCallPerCycleBySample ==
    [][/\ RunStepFrom("L224") => (cycleCall = "none" /\ ad_pos /= None)
       /\ RunStepFrom("L232") => (cycleCall = "none" /\ ad_pos = None)
       /\ (RunThreadStep /\ ~UNCHANGED <<appMuted, sessionMuted>>) =>
                \/ pcRun \in {"L224c", "L224k"} /\ cycleCall = "mute"
                \/ pcRun \in {"L232c", "L232k"} /\ cycleCall = "unmute"
      ]_vars

\* an enabled cycle that sampled no ad and made its unmute call, with an ad on
\* the screen by now
C19_Witness ==
    /\ CycleEnd
    /\ cycleCall = "unmute"
    /\ cycleRet = <<TRUE>>
    /\ ad_pos = None
    /\ AdVisible

\* the call of stop() made by main's finally block after show_menu's call has
\* returned is in progress, or has returned
SecondStop == leftByStop /= None

\* C20: on the menu Stop path the second call of stop() makes no actuator
\* call, and at its return running, program_running and _muted are as the
\* first call left them.
C20_SecondStopChangesNothing ==
    [][SecondStop =>
            /\ ~(pcShell = "S241" /\ pcShell' = "S241c")
            /\ (pcShell /= "join" /\ pcShell' = "join") =>
                    <<running', program_running', _muted'>> = leftByStop
      ]_vars
====
